---- MODULE Spec2Model ----
(***************************************************************************)
(* Model of hpp-manipulation's GraphPathValidation                         *)
(* (src/src/graph-path-validation.cc) and of the ownership structure of    *)
(* the constraint graph (src/include/hpp/manipulation/graph/graph.hh).     *)
(*                                                                         *)
(* The control flow is that of a build with NDEBUG and without HPP_DEBUG:  *)
(* assert(...) and hppDout(...) expand to nothing.  The conditions of the  *)
(* assertions at the end of GraphPathValidation::validate are evaluated    *)
(* and recorded in the variable post, so that they can be checked as       *)
(* properties, but they do not alter the control flow.                     *)
(*                                                                         *)
(* Collaborators that live outside the repository are the environment:     *)
(*   - the underlying PathValidation (accepts a path, or returns a strict  *)
(*     sub-path of it), chosen at the time of the call;                    *)
(*   - the evaluation of a path at a time and Graph::getState, which map   *)
(*     a configuration to a graph state, or fail; a configuration is the   *)
(*     pair <<atomic path, time>>, and its outcome is chosen the first     *)
(*     time it is needed and remembered.                                   *)
(***************************************************************************)
EXTENDS Integers, Sequences, FiniteSets, TLC

\* Largest number of atomic paths in an input path.
MaxSubs == 3
\* Largest length of the time range of an atomic path.
MaxLen == 2

-----------------------------------------------------------------------------
(* Paths.  An atomic path has an identity, a time range and, possibly, a   *)
(* ConstraintSet bearing an edge.  A PathVector is a sequence of paths.    *)

Atom(id, len, e) ==
    [kind |-> "atom", id |-> id, tr |-> <<id, id + len>>, edge |-> e, subs |-> <<>>]

\* PathVector::create followed by appendPath of each element of s
Vec(s) ==
    [kind |-> "vec", id |-> 0, tr |-> <<0, 0>>, edge |-> FALSE, subs |-> s]

NoPath ==
    [kind |-> "none", id |-> 0, tr |-> <<0, 0>>, edge |-> FALSE, subs |-> <<>>]

\* Path::extract on an atomic path
Extract(p, interval) == [p EXCEPT !.tr = interval]

\* Path::copy
Copy(p) == p

\* Path::length: timeRange().second - timeRange().first
RECURSIVE Length(_)
Length(p) ==
    IF p.kind = "atom" THEN p.tr[2] - p.tr[1]
    ELSE IF p.subs = <<>> THEN 0
    ELSE Length(Head(p.subs)) + Length([p EXCEPT !.subs = Tail(p.subs)])

\* Path::initial: the configuration at the start of the path
RECURSIVE InitialCfg(_)
InitialCfg(p) ==
    IF p.kind = "atom" THEN <<p.id, p.tr[1]>> ELSE InitialCfg(p.subs[1])

\* Path::end: the configuration at the end of the path
RECURSIVE EndCfg(_)
EndCfg(p) ==
    IF p.kind = "atom" THEN <<p.id, p.tr[2]>> ELSE EndCfg(p.subs[Len(p.subs)])

\* The atomic paths of a path, in order
RECURSIVE Leaves(_)
Leaves(p) ==
    IF p.kind = "atom" THEN <<p>>
    ELSE IF p.subs = <<>> THEN <<>>
    ELSE Leaves(Head(p.subs)) \o Leaves([p EXCEPT !.subs = Tail(p.subs)])

-----------------------------------------------------------------------------
(* The paths validate is called with: an atomic path, a PathVector of      *)
(* atomic paths, or a PathVector one of whose elements is a PathVector.    *)
(* Atomic paths are numbered in order, from 1, and have every length up to *)
(* MaxLen.  Every other atomic path bears an edge, starting with the       *)
(* first one or with the second one.                                       *)

LeafSeqs(n) ==
    { [i \in 1..n |-> Atom(i, len[i], (i % 2 = 1) = e)] :
        len \in [1..n -> 1..MaxLen], e \in BOOLEAN }

Nested(s, a, b) ==
    Vec(SubSeq(s, 1, a - 1) \o <<Vec(SubSeq(s, a, b))>> \o SubSeq(s, b + 1, Len(s)))

\* The atomic paths a..b that an inner PathVector holds
Spans(n) == { ab \in (1..n) \X (1..n) : ab[1] <= ab[2] }

InputPaths ==
    UNION { { s[1] : s \in LeafSeqs(1) },
            UNION { { Vec(s) : s \in LeafSeqs(n) } : n \in 1..MaxSubs },
            UNION { { Nested(s, ab[1], ab[2]) : s \in LeafSeqs(n), ab \in Spans(n) }
                    : n \in 1..MaxSubs } }

-----------------------------------------------------------------------------
(* The environment.                                                        *)

\* The states of the constraint graph a configuration can belong to
GraphStates == {"s1", "s2"}

\* Evaluating the path at the time fails (NoProj), or Graph::getState
\* throws std::logic_error (NoState), or the configuration is in a state.
Kinds == GraphStates \cup {"NoProj", "NoState"}

\* What is remembered of the outcome for a configuration
Mark(k) == IF k \in GraphStates THEN "state" ELSE k

\* The sub-paths the underlying validator can return with false: a strict
\* prefix of the path, or a strict suffix when validating in reverse.
NoCollisionParts(p, rev) ==
    IF rev
    THEN { Extract(p, <<t, p.tr[2]>>) : t \in (p.tr[1] + 1)..p.tr[2] }
    ELSE { Extract(p, <<p.tr[1], t>>) : t \in p.tr[1]..(p.tr[2] - 1) }

-----------------------------------------------------------------------------
VARIABLES
    constraintGraph_,   \* GraphPathValidation::constraintGraph_: "null" or "set"
    pc,                 \* "idle", "call", "ret" or "done"
    path,               \* the path validate was called with
    reverse,            \* the reverse argument of validate
    stack,              \* the active calls of impl_validate (PathVector)
    arg,                \* the path impl_validate (PathPtr_t) is called with
    ret,                \* what the last call of impl_validate returned
    calls,              \* the calls of the underlying validators, in order
    leaf,               \* the atomic path the validator truncated, if any
    known,              \* the outcomes of the configurations met so far
    outcome,            \* of validate: "none", "returned" or "exception"
    success,            \* the value validate returned
    validPart,          \* the validPart validate returned
    post,               \* the conditions of the assertions of validate
    kindOf,             \* the components of the constraint graph, by identity
    owns,               \* <<a, b>>: a has a shared pointer to b
    refers              \* <<a, b>>: a has a weak pointer to b

graphVars == <<kindOf, owns, refers>>

vars == <<constraintGraph_, pc, path, reverse, stack, arg, ret, calls, leaf,
          known, outcome, success, validPart, post, kindOf, owns, refers>>

NoLeaf ==
    [path |-> NoPath, noColl |-> NoPath, part |-> NoPath, exit |-> "none",
     sameOrig |-> FALSE, sameDest |-> FALSE]

NoRet == [ok |-> FALSE, part |-> NoPath]

NoPost == [graph |-> FALSE, initial |-> FALSE, end |-> FALSE]

\* GraphPathValidation::GraphPathValidation
Init ==
    /\ constraintGraph_ = "null"
    /\ pc = "idle"
    /\ path = NoPath
    /\ reverse = FALSE
    /\ stack = <<>>
    /\ arg = NoPath
    /\ ret = NoRet
    /\ calls = <<>>
    /\ leaf = NoLeaf
    /\ known = {}
    /\ outcome = "none"
    /\ success = FALSE
    /\ validPart = NoPath
    /\ post = NoPost
    /\ kindOf = <<>>
    /\ owns = {}
    /\ refers = {}

\* GraphPathValidation::constraintGraph (const graph::GraphPtr_t&)
SetConstraintGraph ==
    /\ pc = "idle"
    /\ constraintGraph_ = "null"
    /\ constraintGraph_' = "set"
    /\ UNCHANGED <<pc, path, reverse, stack, arg, ret, calls, leaf, known,
                   outcome, success, validPart, post>>
    /\ UNCHANGED graphVars

\* validate: the call of impl_validate (path, reverse, validPart, report)
Validate ==
    /\ pc = "idle"
    /\ constraintGraph_ = "set"
    /\ \E p \in InputPaths, r \in BOOLEAN :
          /\ path' = p
          /\ reverse' = r
          /\ arg' = p
    /\ pc' = "call"
    /\ UNCHANGED <<constraintGraph_, stack, ret, calls, leaf, known, outcome,
                   success, validPart, post>>
    /\ UNCHANGED graphVars

-----------------------------------------------------------------------------
(* impl_validate (const PathPtr_t&) on a path that is not a PathVector.    *)

\* A variant that consults pathValidation_ whatever the constraints are
ValidatorAlwaysDefault(p) == "default"

\* The validator consulted: the edge's when the constraints of the path
\* are a ConstraintSet, pathValidation_ otherwise.
Validator(p) == IF p.edge THEN "edge" ELSE "default"

Call(p, accepted) == [id |-> p.id, validator |-> Validator(p), ok |-> accepted]

\* A variant that returns the start of the path instead of the path
AcceptedValidPartEmpty(p) == Extract(p, <<p.tr[1], p.tr[1]>>)

\* validPart when the validator returns true
AcceptedValidPart(p) == p

\* A variant that keeps the whole path in the catch block
CatchValidPartWhole(p) == p

\* validPart when getState throws on the end of the valid part
CatchValidPart(p) == Extract(p, <<p.tr[1], p.tr[1]>>)

\* A variant that returns the whole path
ConsistentValidPartWhole(p, pathNoCollision) == p

\* validPart when the states of the ends of the valid part are those of
\* the ends of the path
ConsistentValidPart(p, pathNoCollision) == pathNoCollision

\* A variant that returns the null path of the comment at the end of the
\* function: path->extract (std::make_pair (oldTR.first,oldTR.first))
InconsistentValidPartEmpty(p, pathNoCollision) == Extract(p, <<p.tr[1], p.tr[1]>>)

\* validPart when they are not
InconsistentValidPart(p, pathNoCollision) == pathNoCollision

\* The four configurations looked at once the validator returned false
NewFirst(nc) == <<nc.id, nc.tr[1]>>
NewSecond(nc) == <<nc.id, nc.tr[2]>>
OldFirst(p) == <<p.id, p.tr[1]>>
OldSecond(p) == <<p.id, p.tr[2]>>

Looked(p, nc) == {NewFirst(nc), NewSecond(nc), OldFirst(p), OldSecond(p)}

\* Where the code leaves the function, for the outcomes k of the four
\* configurations, in the order the code looks at them.
Exit(p, nc, k) ==
    IF k[NewFirst(nc)] = "NoProj" THEN "throwNewFirst"
    ELSE IF k[NewFirst(nc)] = "NoState" THEN "throwOrigState"
    ELSE IF k[NewSecond(nc)] = "NoProj" THEN "throwNewSecond"
    ELSE IF k[NewSecond(nc)] = "NoState" THEN "catch"
    ELSE IF k[OldFirst(p)] = "NoProj" THEN "throwOldFirst"
    ELSE IF k[OldFirst(p)] = "NoState" THEN "throwOldOstate"
    ELSE IF k[OldSecond(p)] = "NoProj" THEN "throwOldSecond"
    ELSE IF k[OldSecond(p)] = "NoState" THEN "throwOldDstate"
    ELSE IF k[NewFirst(nc)] = k[OldFirst(p)] /\ k[NewSecond(nc)] = k[OldSecond(p)]
         THEN "consistent"
    ELSE "inconsistent"

Throws ==
    {"throwNewFirst", "throwOrigState", "throwNewSecond", "throwOldFirst",
     "throwOldOstate", "throwOldSecond", "throwOldDstate"}

\* The configurations the code has looked at when it leaves by exit e
Seen(p, nc, e) ==
    IF e \in {"throwNewFirst", "throwOrigState"} THEN {NewFirst(nc)}
    ELSE IF e \in {"throwNewSecond", "catch"} THEN {NewFirst(nc), NewSecond(nc)}
    ELSE IF e \in {"throwOldFirst", "throwOldOstate"}
         THEN {NewFirst(nc), NewSecond(nc), OldFirst(p)}
    ELSE Looked(p, nc)

KnownMark(c) ==
    IF \E e \in known : e[1] = c
    THEN (CHOOSE e \in known : e[1] = c)[2]
    ELSE "?"

\* The outcomes of the configurations agree with what is known of them
Agrees(Q, k) ==
    \A c \in Q : KnownMark(c) = "?" \/ KnownMark(c) = Mark(k[c])

LeafOf(p, nc, k, part) ==
    [path |-> p, noColl |-> nc, part |-> part, exit |-> Exit(p, nc, k),
     sameOrig |-> (k[NewFirst(nc)] = k[OldFirst(p)]),
     sameDest |-> (k[NewSecond(nc)] = k[OldSecond(p)])]

\* The validator returns false with pathNoCollision = nc, and the code
\* leaves by exit e, with validPart = part if it returns
Truncation(nc, k, e, part) ==
    /\ Agrees(Looked(arg, nc), k)
    /\ calls' = Append(calls, Call(arg, FALSE))
    /\ leaf' = LeafOf(arg, nc, k, part)
    /\ known' = known \cup { <<c, Mark(k[c])>> : c \in Seen(arg, nc, e) }

\* The validator returns true
AtomicAccept ==
    /\ pc = "call"
    /\ arg.kind = "atom"
    /\ calls' = Append(calls, Call(arg, TRUE))
    /\ ret' = [ok |-> TRUE, part |-> AcceptedValidPart(arg)]
    /\ pc' = "ret"
    /\ UNCHANGED <<constraintGraph_, path, reverse, stack, arg, leaf, known,
                   outcome, success, validPart, post>>
    /\ UNCHANGED graphVars

\* A std::logic_error leaves impl_validate, and validate
AtomicThrow ==
    /\ pc = "call"
    /\ arg.kind = "atom"
    /\ \E nc \in NoCollisionParts(arg, reverse) :
       \E k \in [Looked(arg, nc) -> Kinds] :
          LET e == Exit(arg, nc, k)
          IN  e \in Throws /\ Truncation(nc, k, e, NoPath)
    /\ pc' = "done"
    /\ outcome' = "exception"
    /\ UNCHANGED <<constraintGraph_, path, reverse, stack, arg, ret, success,
                   validPart, post>>
    /\ UNCHANGED graphVars

\* getState throws on the end of the valid part: the catch block
AtomicCatch ==
    /\ pc = "call"
    /\ arg.kind = "atom"
    /\ \E nc \in NoCollisionParts(arg, reverse) :
       \E k \in [Looked(arg, nc) -> Kinds] :
          /\ Exit(arg, nc, k) = "catch"
          /\ Truncation(nc, k, "catch", CatchValidPart(arg))
    /\ ret' = [ok |-> FALSE, part |-> CatchValidPart(arg)]
    /\ pc' = "ret"
    /\ UNCHANGED <<constraintGraph_, path, reverse, stack, arg, outcome,
                   success, validPart, post>>
    /\ UNCHANGED graphVars

\* origState == oldOstate && destState == oldDstate
AtomicConsistent ==
    /\ pc = "call"
    /\ arg.kind = "atom"
    /\ \E nc \in NoCollisionParts(arg, reverse) :
       \E k \in [Looked(arg, nc) -> Kinds] :
          /\ Exit(arg, nc, k) = "consistent"
          /\ Truncation(nc, k, "consistent", ConsistentValidPart(arg, nc))
          /\ ret' = [ok |-> FALSE, part |-> ConsistentValidPart(arg, nc)]
    /\ pc' = "ret"
    /\ UNCHANGED <<constraintGraph_, path, reverse, stack, arg, outcome,
                   success, validPart, post>>
    /\ UNCHANGED graphVars

\* The valid part does not correspond to the same edge of the graph
AtomicInconsistent ==
    /\ pc = "call"
    /\ arg.kind = "atom"
    /\ \E nc \in NoCollisionParts(arg, reverse) :
       \E k \in [Looked(arg, nc) -> Kinds] :
          /\ Exit(arg, nc, k) = "inconsistent"
          /\ Truncation(nc, k, "inconsistent", InconsistentValidPart(arg, nc))
          /\ ret' = [ok |-> FALSE, part |-> InconsistentValidPart(arg, nc)]
    /\ pc' = "ret"
    /\ UNCHANGED <<constraintGraph_, path, reverse, stack, arg, outcome,
                   success, validPart, post>>
    /\ UNCHANGED graphVars

-----------------------------------------------------------------------------
(* impl_validate (const PathVectorPtr_t&).  Ranks are counted from 1: the  *)
(* rank i of the code is i - 1 here.                                       *)

NumberPaths(v) == Len(v.subs)

FirstRank(v, rev) == IF rev THEN NumberPaths(v) ELSE 1

NextRank(i, rev) == IF rev THEN i - 1 ELSE i + 1

InRange(v, i, rev) == IF rev THEN i >= 1 ELSE i /= NumberPaths(v) + 1

\* A variant that copies the sub-path of rank i at each turn of the loop
ForwardValidPartSameRank(v, i, validSubPart) ==
    Vec([r \in 1..(i - 1) |-> Copy(v.subs[i])] \o <<validSubPart>>)

\* p, when a sub-path is not valid and reverse is false
ForwardValidPart(v, i, validSubPart) ==
    Vec([r \in 1..(i - 1) |-> Copy(v.subs[r])] \o <<validSubPart>>)

\* p, when a sub-path is not valid and reverse is true
ReverseValidPart(v, i, validSubPart) ==
    Vec([r \in 1..(NumberPaths(v) - i) |-> Copy(v.subs[i])] \o <<validSubPart>>)

Top == stack[Len(stack)]

Pop == SubSeq(stack, 1, Len(stack) - 1)

\* The dynamic cast succeeds: the loop is entered, or not
VecEnter ==
    /\ pc = "call"
    /\ arg.kind = "vec"
    /\ IF InRange(arg, FirstRank(arg, reverse), reverse)
       THEN /\ stack' = Append(stack, [vec |-> arg, i |-> FirstRank(arg, reverse)])
            /\ arg' = arg.subs[FirstRank(arg, reverse)]
            /\ UNCHANGED <<pc, ret>>
       ELSE /\ ret' = [ok |-> TRUE, part |-> arg]
            /\ pc' = "ret"
            /\ UNCHANGED <<stack, arg>>
    /\ UNCHANGED <<constraintGraph_, path, reverse, calls, leaf, known, outcome,
                   success, validPart, post>>
    /\ UNCHANGED graphVars

\* A variant that goes on with the next sub-path whatever the last returned
LoopNextAlways ==
    /\ pc = "ret"
    /\ stack /= <<>>
    /\ InRange(Top.vec, NextRank(Top.i, reverse), reverse)
    /\ stack' = Append(Pop, [Top EXCEPT !.i = NextRank(Top.i, reverse)])
    /\ arg' = Top.vec.subs[NextRank(Top.i, reverse)]
    /\ pc' = "call"
    /\ UNCHANGED <<constraintGraph_, path, reverse, ret, calls, leaf, known,
                   outcome, success, validPart, post>>
    /\ UNCHANGED graphVars

\* The sub-path is valid and it is not the last one
LoopNext ==
    /\ pc = "ret"
    /\ stack /= <<>>
    /\ ret.ok
    /\ InRange(Top.vec, NextRank(Top.i, reverse), reverse)
    /\ stack' = Append(Pop, [Top EXCEPT !.i = NextRank(Top.i, reverse)])
    /\ arg' = Top.vec.subs[NextRank(Top.i, reverse)]
    /\ pc' = "call"
    /\ UNCHANGED <<constraintGraph_, path, reverse, ret, calls, leaf, known,
                   outcome, success, validPart, post>>
    /\ UNCHANGED graphVars

\* Here, every subpath is valid
LoopEnd ==
    /\ pc = "ret"
    /\ stack /= <<>>
    /\ ret.ok
    /\ ~InRange(Top.vec, NextRank(Top.i, reverse), reverse)
    /\ stack' = Pop
    /\ ret' = [ok |-> TRUE, part |-> Top.vec]
    /\ UNCHANGED <<constraintGraph_, pc, path, reverse, arg, calls, leaf, known,
                   outcome, success, validPart, post>>
    /\ UNCHANGED graphVars

\* The first non valid subpath, reverse being false
LoopFailForward ==
    /\ pc = "ret"
    /\ stack /= <<>>
    /\ ~ret.ok
    /\ ~reverse
    /\ stack' = Pop
    /\ ret' = [ok |-> FALSE, part |-> ForwardValidPart(Top.vec, Top.i, ret.part)]
    /\ UNCHANGED <<constraintGraph_, pc, path, reverse, arg, calls, leaf, known,
                   outcome, success, validPart, post>>
    /\ UNCHANGED graphVars

\* The first non valid subpath, reverse being true
LoopFailReverse ==
    /\ pc = "ret"
    /\ stack /= <<>>
    /\ ~ret.ok
    /\ reverse
    /\ stack' = Pop
    /\ ret' = [ok |-> FALSE, part |-> ReverseValidPart(Top.vec, Top.i, ret.part)]
    /\ UNCHANGED <<constraintGraph_, pc, path, reverse, arg, calls, leaf, known,
                   outcome, success, validPart, post>>
    /\ UNCHANGED graphVars

-----------------------------------------------------------------------------
(* validate, once impl_validate has returned.                              *)

\* Whether getState of the configuration gives a state
MayBeInState(c, b) == KnownMark(c) = "?" \/ (b <=> KnownMark(c) = "state")

Return ==
    /\ pc = "ret"
    /\ stack = <<>>
    /\ success' = ret.ok
    /\ validPart' = ret.part
    /\ \E bi, be \in BOOLEAN :
          /\ MayBeInState(InitialCfg(ret.part), bi)
          /\ MayBeInState(EndCfg(ret.part), be)
          /\ InitialCfg(ret.part) = EndCfg(ret.part) => bi = be
          /\ post' = [graph |-> constraintGraph_ = "set", initial |-> bi, end |-> be]
    /\ outcome' = "returned"
    /\ pc' = "done"
    /\ UNCHANGED <<constraintGraph_, path, reverse, stack, arg, ret, calls, leaf,
                   known>>
    /\ UNCHANGED graphVars

Next ==
    \/ SetConstraintGraph
    \/ Validate
    \/ AtomicAccept
    \/ AtomicThrow
    \/ AtomicCatch
    \/ AtomicConsistent
    \/ AtomicInconsistent
    \/ VecEnter
    \/ LoopNext
    \/ LoopEnd
    \/ LoopFailForward
    \/ LoopFailReverse
    \/ Return

Spec == Init /\ [][Next]_vars

-----------------------------------------------------------------------------
(* The constraint graph: its components and the pointers between them.     *)
(* A component is known by its rank in kindOf; the graph, once created,    *)
(* is the first one.                                                       *)

\* Largest number of selectors, nodes and edges of a graph.
MaxComponents == 5

pvVars == <<constraintGraph_, pc, path, reverse, stack, arg, ret, calls, leaf,
            known, outcome, success, validPart, post>>

Components(kind) == { c \in 1..Len(kindOf) : kindOf[c] = kind }

New == Len(kindOf) + 1

\* Graph::create and Graph::init: the graph keeps a weak pointer to itself
GraphCreate ==
    /\ kindOf = <<>>
    /\ kindOf' = <<"graph">>
    /\ owns' = owns
    /\ refers' = refers \cup {<<New, New>>}
    /\ UNCHANGED pvVars

\* Graph::createNodeSelector: a NodeSelector inserted in nodeSelectors_
CreateNodeSelector ==
    /\ Components("graph") /= {}
    /\ Len(kindOf) <= MaxComponents
    /\ \E g \in Components("graph") :
          /\ kindOf' = Append(kindOf, "selector")
          /\ owns' = owns \cup {<<g, New>>}
          /\ refers' = refers \cup {<<New, New>>}
    /\ UNCHANGED pvVars

\* A node (state) created in a selector, which owns it
CreateNode ==
    /\ Len(kindOf) <= MaxComponents
    /\ \E s \in Components("selector") :
          /\ kindOf' = Append(kindOf, "node")
          /\ owns' = owns \cup {<<s, New>>}
          /\ refers' = refers \cup {<<New, New>>}
    /\ UNCHANGED pvVars

\* A variant in which the edge has a shared pointer to its destination
CreateEdgeOwningTo ==
    /\ Len(kindOf) <= MaxComponents
    /\ \E from \in Components("node"), to \in Components("node") :
          /\ kindOf' = Append(kindOf, "edge")
          /\ owns' = owns \cup {<<from, New>>, <<New, to>>}
          /\ refers' = refers \cup {<<New, New>>, <<New, from>>}
    /\ UNCHANGED pvVars

\* An edge created from a node, which owns it, to a node; the edge refers
\* to both by weak pointers
CreateEdge ==
    /\ Len(kindOf) <= MaxComponents
    /\ \E from \in Components("node"), to \in Components("node") :
          /\ kindOf' = Append(kindOf, "edge")
          /\ owns' = owns \cup {<<from, New>>}
          /\ refers' = refers \cup {<<New, New>>, <<New, from>>, <<New, to>>}
    /\ UNCHANGED pvVars

NextGraph ==
    \/ GraphCreate
    \/ CreateNodeSelector
    \/ CreateNode
    \/ CreateEdge

SpecGraph == Init /\ [][NextGraph]_vars

-----------------------------------------------------------------------------
(* Properties.                                                             *)

Done == pc = "done"

Returned == pc = "done" /\ outcome = "returned"

\* The underlying validator returned false on an atomic path
Truncated == leaf.exit /= "none"

\* The zero-length path at the start of an atomic path
StartOf(p) == Extract(p, <<p.tr[1], p.tr[1]>>)

\* The atomic path the validator truncated is one of those of p
Holds(p) == \E j \in 1..Len(Leaves(p)) : Leaves(p)[j].id = leaf.path.id

\* The rank of the sub-path of the PathVector v that failed
FailedRank(v) == CHOOSE r \in 1..Len(v.subs) : Holds(v.subs[r])

\* The valid fragment of a path that failed, reverse being false: that of
\* the atomic path, or the sub-paths before the first one that failed
\* followed by the valid fragment of that one
RECURSIVE Fragment(_)
Fragment(p) ==
    IF p.kind = "atom" THEN leaf.part
    ELSE Vec(SubSeq(p.subs, 1, FailedRank(p) - 1)
             \o <<Fragment(p.subs[FailedRank(p)])>>)

\* C1: when the underlying validator accepts every atomic path of the
\* input, validate returns true with validPart the input path, of the same
\* length, every atomic path has been handed to a validator, and no
\* configuration has been classified by impl_validate.
C1_AcceptedIsWhole ==
    (Done /\ ~Truncated) =>
        /\ outcome = "returned"
        /\ success
        /\ validPart = path
        /\ Length(validPart) = Length(path)
        /\ Len(calls) = Len(Leaves(path))
        /\ \A j \in 1..Len(calls) : calls[j].ok
        /\ known = {}

C1_Witness ==
    /\ Done /\ ~Truncated /\ success
    /\ path.kind = "vec"
    /\ Len(calls) >= 2
    /\ \E r \in 1..Len(path.subs) : path.subs[r].kind = "vec"

\* C2: the validPart validate returns is never longer than its input.
C2_NeverLonger == Returned => Length(validPart) <= Length(path)

\* C3: reverse being false, when a sub-path of a PathVector fails,
\* validate returns false with validPart the PathVector of the sub-paths
\* before the first that failed, unmodified and in order, followed by the
\* valid fragment of the one that failed, and nothing else.
C3_ForwardPrefix ==
    (Returned /\ Truncated /\ ~reverse /\ path.kind = "vec") =>
        /\ ~success
        /\ validPart = Fragment(path)
        /\ validPart.subs
             = SubSeq(path.subs, 1, FailedRank(path) - 1)
               \o <<validPart.subs[FailedRank(path)]>>

C3_Witness ==
    /\ Returned /\ Truncated /\ ~reverse /\ path.kind = "vec"
    /\ FailedRank(path) >= 3
    /\ Length(leaf.part) > 0

\* C4, as claimed: when getState throws on one of the four configurations
\* looked at after a truncation, validate returns false with validPart the
\* zero-length path at the start of the atomic path.
C4_AnyEndpointReturnsEmpty ==
    (Done /\ leaf.exit \in {"throwOrigState", "catch", "throwOldOstate", "throwOldDstate"}) =>
        /\ outcome = "returned"
        /\ ~success
        /\ leaf.part = StartOf(leaf.path)

\* C4, amended: when getState throws on the end of the valid part, the
\* start of the valid part being in a state, the validation of the atomic
\* path returns false with validPart the zero-length path at the start of
\* the atomic path, and validate returns; when one of the four
\* configurations cannot be evaluated, or getState throws on one of the
\* other three, the std::logic_error leaves validate and nothing is
\* returned.
C4_OnlyEndOfValidPartIsCaught ==
    (Done /\ Truncated /\ leaf.exit \notin {"consistent", "inconsistent"}) =>
        IF leaf.exit = "catch"
        THEN /\ outcome = "returned"
             /\ ~success
             /\ leaf.part = StartOf(leaf.path)
             /\ Length(leaf.part) = 0
             /\ path.kind = "atom" => validPart = StartOf(path)
        ELSE /\ outcome = "exception"
             /\ validPart = NoPath

C4_Witness ==
    /\ Returned /\ leaf.exit = "catch"
    /\ path.kind = "atom"
    /\ Length(leaf.noColl) > 0
    /\ validPart = StartOf(path)

\* C5: when the ends of the truncated sub-path are in the same states as
\* the ends of the atomic path, validate returns false and the validPart of
\* the atomic path is the sub-path the validator returned, unchanged.
C5_ConsistentKeepsNoCollision ==
    (Done /\ leaf.exit \in {"consistent", "inconsistent"}
          /\ leaf.sameOrig /\ leaf.sameDest) =>
        /\ outcome = "returned"
        /\ ~success
        /\ leaf.part = leaf.noColl
        /\ path.kind = "atom" => validPart = leaf.noColl

C5_Witness ==
    /\ Returned /\ leaf.exit = "consistent"
    /\ leaf.sameOrig /\ leaf.sameDest
    /\ path.kind = "atom"
    /\ Length(leaf.noColl) > 0

\* C6: when one end of the truncated sub-path is in another state than the
\* same end of the atomic path, validate returns false and the validPart of
\* the atomic path is still the sub-path the validator returned.
C6_InconsistentKeepsNoCollision ==
    (Done /\ leaf.exit \in {"consistent", "inconsistent"}
          /\ ~(leaf.sameOrig /\ leaf.sameDest)) =>
        /\ outcome = "returned"
        /\ ~success
        /\ leaf.part = leaf.noColl
        /\ path.kind = "atom" => validPart = leaf.noColl

C6_Witness ==
    /\ Returned /\ leaf.exit = "inconsistent"
    /\ ~leaf.sameDest
    /\ path.kind = "atom"
    /\ Length(leaf.noColl) > 0

\* What is owned by one of S
OwnedStep(S) == S \cup { e[2] : e \in { o \in owns : o[1] \in S } }

RECURSIVE Closure(_, _)
Closure(S, n) == IF n = 0 THEN S ELSE Closure(OwnedStep(S), n - 1)

\* What c owns, directly or not
OwnedBy(c) == Closure({ e[2] : e \in { o \in owns : o[1] = c } }, Len(kindOf))

\* What a component of each kind may own
MayOwn(kind) ==
    CASE kind = "graph" -> "selector"
      [] kind = "selector" -> "node"
      [] kind = "node" -> "edge"
      [] OTHER -> "nothing"

\* C7: no component owns itself, directly or not; a graph owns selectors
\* only, a selector nodes, a node its outgoing edges, and an edge owns
\* nothing: it refers to its two nodes by weak pointers.
C7_OwnershipAcyclic ==
    /\ \A c \in 1..Len(kindOf) : c \notin OwnedBy(c)
    /\ \A o \in owns : kindOf[o[2]] = MayOwn(kindOf[o[1]])
    /\ \A e \in Components("edge") :
          /\ \A o \in owns : o[1] /= e
          /\ \E n \in Components("node") : <<n, e>> \in owns /\ <<e, n>> \in refers

\* Two nodes, each with an edge to the other
C7_Witness ==
    \E e, f \in Components("edge") : \E n, m \in Components("node") :
        /\ n /= m
        /\ <<n, e>> \in owns /\ <<e, m>> \in refers
        /\ <<m, f>> \in owns /\ <<f, n>> \in refers

\* The rank, among the atomic paths of the input, of the j-th to validate
Requested(j) == IF reverse THEN Len(Leaves(path)) + 1 - j ELSE j

\* C8: the atomic paths are handed to the validator one at a time in the
\* requested order, each at most once, and none after one that failed.
C8_InOrderUntilFailure ==
    /\ Len(calls) <= Len(Leaves(path))
    /\ \A j \in 1..Len(calls) :
          /\ calls[j].id = Leaves(path)[Requested(j)].id
          /\ j < Len(calls) => calls[j].ok
    /\ \A j \in 1..Len(calls) : ~calls[j].ok => (Truncated /\ leaf.path.id = calls[j].id)

C8_Witness ==
    /\ Returned /\ ~success
    /\ path.kind = "vec"
    /\ Len(calls) >= 2
    /\ Len(calls) < Len(Leaves(path))

\* C9: when validate returns, the conditions of its assertions hold: the
\* constraint graph is set and the two ends of validPart are in a state.
C9_PostConditions == Returned => (post.graph /\ post.initial /\ post.end)

\* C10: reverse being true, when a sub-path of a PathVector fails,
\* validPart is made of the sub-paths after it and of its valid fragment.
C10_ReverseSuffix ==
    (Returned /\ Truncated /\ reverse /\ path.kind = "vec") =>
        /\ ~success
        /\ validPart.kind = "vec"
        /\ Len(validPart.subs) = Len(path.subs) - FailedRank(path) + 1
        /\ \A r \in (FailedRank(path) + 1)..Len(path.subs) :
              \E j \in 1..Len(validPart.subs) : validPart.subs[j] = Copy(path.subs[r])

\* The atomic path of the input a call of a validator was made on
CalledOn(j) == Leaves(path)[calls[j].id]

\* C11: one validator is consulted for an atomic path, and only once: the
\* one of the edge when the constraints of the path are a ConstraintSet
\* bearing an edge, the one given to the constructor otherwise; so the
\* latter is never called on a path whose constraints bear an edge.
C11_ValidatorSelection ==
    /\ \A j \in 1..Len(calls) :
          /\ calls[j].validator \in {"edge", "default"}
          /\ CalledOn(j).edge => calls[j].validator = "edge"
          /\ ~CalledOn(j).edge => calls[j].validator = "default"
          /\ \A l \in 1..Len(calls) : calls[l].id = calls[j].id => l = j
    /\ (Returned /\ success) => Len(calls) = Len(Leaves(path))
    /\ (pc \in {"ret", "done"} /\ path.kind = "atom") => Len(calls) = 1

C11_Witness ==
    /\ Returned
    /\ \E j \in 1..Len(calls) : CalledOn(j).edge /\ calls[j].validator = "edge"
    /\ \E j \in 1..Len(calls) : ~CalledOn(j).edge /\ calls[j].validator = "default"

====
